---- MODULE Spec2Model ----
(***************************************************************************)
(* QR-code e-mail template generator (husknet/QRKODE-V2).                  *)
(*                                                                         *)
(* The repository holds two revisions of the same page component `Home`:   *)
(*   "basic"    src/pages/index.tsx   URL field, Generate, Copy            *)
(*   "template" src/unnamed/part_000  adds the template selector and the   *)
(*                                    logo upload / logo URL fields        *)
(* The model is the component's React state plus the asynchronous work its *)
(* handlers leave in flight: FileReader reads, handleGenerate invocations  *)
(* suspended at an await, clipboard writes and the 2-second reset timers.  *)
(* A handler runs to its first await in one step; each continuation is a   *)
(* step of its own, so other events interleave exactly where the browser   *)
(* event loop lets them.  A handler closes over the state of the render in *)
(* which it was invoked, so a suspended invocation carries that state.     *)
(*                                                                         *)
(* Strings are modelled by strings.  An HTML document is the sequence of   *)
(* the parts of the template literal that vary (the fixed mark-up between  *)
(* them is constant); the empty string html = '' is the empty sequence.    *)
(***************************************************************************)
EXTENDS Naturals, Sequences, FiniteSets

VARIABLES
    page,               \* which revision of Home is mounted
    url,                \* useState('')           target URL field
    template,           \* useState('Document')   template selector
    logoUrl,            \* useState('')           remote logo URL field
    logoFile,           \* useState(null)         selected File
    localLogoDataUri,   \* useState('')           data URI of the selected file
    html,               \* useState('')           displayed rendered output
    copyStatus,         \* useState('idle')       'idle' | 'copied'
    reads,              \* FileReader reads in flight (handleFileChange)
    gens,               \* handleGenerate invocations suspended at an await
    writes,             \* navigator.clipboard.writeText promises in flight
    timers,             \* pending setTimeout(..., 2000) callbacks
    clipboard,          \* system clipboard content
    alerted,            \* alert() raised by the last step, "none" if none
    op,                 \* the handler or continuation that ran last
    shown,              \* the invocation whose output is displayed in html
    replaced,           \* the output (and its invocation) the displayed one replaced
    actions             \* number of user actions performed so far

vars == <<page, url, template, logoUrl, logoFile, localLogoDataUri, html,
          copyStatus, reads, gens, writes, timers, clipboard, alerted, op,
          shown, replaced, actions>>

\* The component's React state (everything a useState holds).
uiState == <<url, template, logoUrl, logoFile, localLogoDataUri, html, copyStatus>>

-----------------------------------------------------------------------------
\* Bounds of the exploration.
\* User actions (field edits, file selections, button clicks) in a session.
MaxActions == 5
\* handleGenerate invocations in flight at once.
MaxGens == 2
\* FileReader reads in flight at once.
MaxReads == 1
\* Clipboard writes in flight plus pending reset timers.
MaxCopies == 1

-----------------------------------------------------------------------------
\* Values.
Null == "<null>"                       \* JavaScript null
Truthy(s) == s # "" /\ s # Null        \* a string | null used as a condition

Pages == {"basic", "template"}
Templates == {"Document", "Contract", "Invoice", "Statement", "Payment"}
Urls == {"", "https://a.example", "https://b.example", "<over capacity>"}
LogoUrls == {"", "https://cdn.example/logo.png"}
Files == {"logo.png", "brand.jpg"}
Years == {"2026"}                      \* new Date().getFullYear() during the session

\* The three alert() messages.
MissingInput == "Please paste a URL first."
RemoteLogoFetchFailure == "Failed to fetch provided logo URL. Falling back to defaults."
QrEncodingFailure == "Failed to generate QR code."

\* Bundled images embedded at build time.
defaultLogoDataUri == "data:image/png;base64,<docusign_logo.png>"
iconDataUri == "data:image/png;base64,<doc_icon.png>"

templateConfig ==
    [t \in Templates |->
        CASE t = "Document" ->
                [header |-> "Your document is ready to review and sign",
                 cta |-> "Scan the QR Code below to view or sign the shared document."]
          [] t = "Contract" ->
                [header |-> "Your contract is ready to review and sign",
                 cta |-> "Scan the QR Code below to view or sign the contract."]
          [] t = "Invoice" ->
                [header |-> "Your invoice is ready to view and pay",
                 cta |-> "Scan the QR Code below to view or pay the invoice."]
          [] t = "Statement" ->
                [header |-> "Your statement is ready to view",
                 cta |-> "Scan the QR Code below to view your statement."]
          [] t = "Payment" ->
                [header |-> "Payment Notification: Your payment details are ready",
                 cta |-> "Scan the QR Code below to review and confirm all invoices included in this payment."]]

\* QRCode.toDataURL(url, {width: 200, margin: 2, color}): rejects when the
\* text exceeds the symbol capacity, else a data URI fixed by the text.
Encodable(u) == u \in {"https://a.example", "https://b.example"}
toDataURL(u) ==
    CASE u = "https://a.example" -> "data:image/png;base64,<qr a.example>"
      [] u = "https://b.example" -> "data:image/png;base64,<qr b.example>"
      [] OTHER -> Null

\* FileReader.readAsDataURL(file): reader.result at loadend, null when the
\* read failed.
FileImage(f) ==
    CASE f = "logo.png" -> "data:image/png;base64,<logo.png>"
      [] f = "brand.jpg" -> "data:image/jpeg;base64,<brand.jpg>"
      [] OTHER -> Null
ReadResults(f) == {FileImage(f), Null}

\* fetchLogoDataUri(url): the promise resolves with the data URI of the
\* response body (whatever the HTTP status: res.ok is not looked at), or
\* rejects (network error, CORS, reader.onerror).
FetchOutcomes == {"image", "httpError", "reject"}
fetchLogoDataUri(u, outcome) ==
    CASE outcome = "image" -> "data:image/png;base64,<remote logo>"
      [] outcome = "httpError" -> "data:text/html;base64,<404 page>"
      [] OTHER -> Null

\* buildEmailHtml(qrDataUri, logoToUse) of the template revision; `tpl` is
\* the `template` of the render the caller closed over.
buildEmailHtml(qrDataUri, logoToUse, tpl, year) ==
    LET config == IF tpl \in DOMAIN templateConfig
                  THEN templateConfig[tpl] ELSE templateConfig["Document"]
    IN  << config.header,                              \* <title>
           IF Truthy(logoToUse) THEN logoToUse ELSE "", \* logo row
           config.header,                               \* <h1>
           qrDataUri,                                   \* QR <img src>
           config.cta,                                  \* call to action
           year >>                                      \* footer

\* buildEmailHtml(qrDataUri) of the basic revision.
buildEmailHtmlBasic(qrDataUri, year) ==
    << "Document Ready to Sign",
       defaultLogoDataUri,
       iconDataUri,
       "Your document is ready to review and sign",
       qrDataUri,
       "Scan the QR Code to view or sign the shared document.",
       year >>

\* Variant of LogoToUse: the default logo is used under every template kind.
LogoToUseAnyTemplate(customLogoDataUri, tpl) ==
    IF Truthy(customLogoDataUri) THEN customLogoDataUri ELSE defaultLogoDataUri

\* Line 127: customLogoDataUri || (template === 'Document' ? defaultLogoDataUri : null)
LogoToUse(customLogoDataUri, tpl) ==
    IF Truthy(customLogoDataUri) THEN customLogoDataUri
    ELSE IF tpl = "Document" THEN defaultLogoDataUri ELSE Null

\* Parts of a rendered document of the template revision.
QrOf(doc) == doc[4]
LogoBlockOf(doc) == doc[2]
HeaderOf(doc) == doc[3]

Remove(s, i) == SubSeq(s, 1, i - 1) \o SubSeq(s, i + 1, Len(s))

NoGen == [url |-> "", template |-> "", logoFile |-> Null,
          localLogoDataUri |-> "", logoUrl |-> "",
          pc |-> "none", customLogoDataUri |-> Null, logoToUse |-> Null]

\* The shape of an invocation record and of the state.
GenOK(g) ==
    /\ g.url \in Urls \ {""}
    /\ g.template \in Templates
    /\ g.logoFile \in Files \cup {Null}
    /\ g.localLogoDataUri \in {""} \cup UNION {ReadResults(f) : f \in Files}
    /\ g.logoUrl \in LogoUrls
    /\ g.pc \in {"fetch", "encode"}

TypeOK ==
    /\ page \in Pages
    /\ url \in Urls
    /\ template \in Templates
    /\ logoUrl \in LogoUrls
    /\ logoFile \in Files \cup {Null}
    /\ localLogoDataUri \in {""} \cup UNION {ReadResults(f) : f \in Files}
    /\ copyStatus \in {"idle", "copied"}
    /\ Len(html) \in {0, 6, 7}
    /\ Len(clipboard) \in {0, 6, 7}
    /\ \A i \in 1..Len(reads) : reads[i] \in Files
    /\ \A i \in 1..Len(gens) : GenOK(gens[i])
    /\ \A i \in 1..Len(writes) : Len(writes[i]) \in {6, 7}
    /\ timers \in Nat
    /\ alerted \in {"none", MissingInput, RemoteLogoFetchFailure, QrEncodingFailure}
    /\ actions \in 0..MaxActions

-----------------------------------------------------------------------------
Init ==
    /\ page \in Pages
    /\ url = ""
    /\ template = "Document"
    /\ logoUrl = ""
    /\ logoFile = Null
    /\ localLogoDataUri = ""
    /\ html = <<>>
    /\ copyStatus = "idle"
    /\ reads = <<>>
    /\ gens = <<>>
    /\ writes = <<>>
    /\ timers = 0
    /\ clipboard = <<>>
    /\ alerted = "none"
    /\ op = "init"
    /\ shown = NoGen
    /\ replaced = [html |-> <<>>, shown |-> NoGen]
    /\ actions = 0

\* A step taken by the user: an input event and the handler it runs.
UserAction(name, alert) ==
    /\ actions < MaxActions
    /\ actions' = actions + 1
    /\ op' = name
    /\ alerted' = alert

\* A step taken by the event loop: a callback or the rest of an async handler.
Continuation(name, alert) ==
    /\ op' = name
    /\ alerted' = alert
    /\ UNCHANGED actions

\* URL field onChange: setUrl(e.target.value)
SetUrl(v) ==
    /\ v # url
    /\ UserAction("setUrl", "none")
    /\ url' = v
    /\ UNCHANGED <<page, template, logoUrl, logoFile, localLogoDataUri, html,
                   copyStatus, reads, gens, writes, timers, clipboard, shown, replaced>>

\* Template <select> onChange: setTemplate(e.target.value)
SetTemplate(t) ==
    /\ page = "template"
    /\ t # template
    /\ UserAction("setTemplate", "none")
    /\ template' = t
    /\ UNCHANGED <<page, url, logoUrl, logoFile, localLogoDataUri, html,
                   copyStatus, reads, gens, writes, timers, clipboard, shown, replaced>>

\* Logo URL field onChange
LogoUrlChange(v) ==
    /\ page = "template"
    /\ v # logoUrl
    /\ UserAction("logoUrlChange", "none")
    /\ logoUrl' = v
    /\ logoFile' = Null
    /\ localLogoDataUri' = ""
    /\ UNCHANGED <<page, url, template, html, copyStatus, reads, gens, writes,
                   timers, clipboard, shown, replaced>>

\* handleFileChange with a file chosen: the read is started, not awaited
handleFileChange(f) ==
    /\ page = "template"
    /\ Len(reads) < MaxReads
    /\ UserAction("handleFileChange", "none")
    /\ logoFile' = f
    /\ logoUrl' = ""
    /\ reads' = Append(reads, f)
    /\ UNCHANGED <<page, url, template, localLogoDataUri, html, copyStatus,
                   gens, writes, timers, clipboard, shown, replaced>>

\* handleFileChange with an empty file list: if (!file) return
handleFileChangeNoFile ==
    /\ page = "template"
    /\ UserAction("handleFileChangeNoFile", "none")
    /\ UNCHANGED <<page, url, template, logoUrl, logoFile, localLogoDataUri,
                   html, copyStatus, reads, gens, writes, timers, clipboard, shown, replaced>>

\* reader.onloadend = () => setLocalLogoDataUri(reader.result)
ReaderLoadEnd(i) ==
    /\ i \in 1..Len(reads)
    /\ Continuation("readerLoadEnd", "none")
    /\ \E r \in ReadResults(reads[i]) : localLogoDataUri' = r
    /\ reads' = Remove(reads, i)
    /\ UNCHANGED <<page, url, template, logoUrl, logoFile, html, copyStatus,
                   gens, writes, timers, clipboard, shown, replaced>>

\* The invocation handleGenerate leaves suspended at its first await: the
\* state of the render it closed over, where it waits, and its locals.
\* Template revision, lines 117-129; basic revision, line 83.
StartGen ==
    LET at(pc, custom) ==
            [url |-> url, template |-> template, logoFile |-> logoFile,
             localLogoDataUri |-> localLogoDataUri, logoUrl |-> logoUrl,
             pc |-> pc, customLogoDataUri |-> custom,
             logoToUse |-> IF pc = "fetch" THEN Null ELSE LogoToUse(custom, template)]
    IN  IF page = "basic" THEN at("encode", Null)
        ELSE IF Truthy(localLogoDataUri) THEN at("encode", localLogoDataUri)
        ELSE IF logoUrl # "" THEN at("fetch", Null)
        ELSE at("encode", Null)

\* Variant of handleGenerateEmpty: the prompt is raised but the handler does
\* not return.
handleGenerateEmptyGoesOn ==
    /\ url = ""
    /\ Len(gens) < MaxGens
    /\ UserAction("handleGenerate", MissingInput)
    /\ gens' = Append(gens, StartGen)
    /\ UNCHANGED <<page, url, template, logoUrl, logoFile, localLogoDataUri,
                   html, copyStatus, reads, writes, timers, clipboard, shown, replaced>>

\* Generate button onClick with an empty URL field:
\* if (!url) return alert('Please paste a URL first.')
handleGenerateEmpty ==
    /\ url = ""
    /\ UserAction("handleGenerate", MissingInput)
    /\ UNCHANGED <<page, url, template, logoUrl, logoFile, localLogoDataUri,
                   html, copyStatus, reads, gens, writes, timers, clipboard, shown, replaced>>

\* Generate button onClick with a URL: runs to the first await
handleGenerate ==
    /\ url # ""
    /\ Len(gens) < MaxGens
    /\ UserAction("handleGenerate", "none")
    /\ gens' = Append(gens, StartGen)
    /\ UNCHANGED <<page, url, template, logoUrl, logoFile, localLogoDataUri,
                   html, copyStatus, reads, writes, timers, clipboard, shown, replaced>>

\* The invocation after `await fetchLogoDataUri(logoUrl)` settled: lines 122-127
AfterFetch(g, outcome) ==
    LET custom == IF outcome = "reject" THEN Null
                  ELSE fetchLogoDataUri(g.logoUrl, outcome)
    IN  [g EXCEPT !.pc = "encode",
                  !.customLogoDataUri = custom,
                  !.logoToUse = LogoToUse(custom, g.template)]

\* await fetchLogoDataUri(logoUrl) resolves
FetchResolved(i) ==
    /\ i \in 1..Len(gens)
    /\ gens[i].pc = "fetch"
    /\ Continuation("fetchResolved", "none")
    /\ \E outcome \in FetchOutcomes \ {"reject"} :
            gens' = [gens EXCEPT ![i] = AfterFetch(gens[i], outcome)]
    /\ UNCHANGED <<page, url, template, logoUrl, logoFile, localLogoDataUri,
                   html, copyStatus, reads, writes, timers, clipboard, shown, replaced>>

\* Variant of FetchRejected: without the inner try/catch the rejection reaches
\* the outer catch and ends the invocation.
FetchRejectedFatal(i) ==
    /\ i \in 1..Len(gens)
    /\ gens[i].pc = "fetch"
    /\ Continuation("fetchRejected", QrEncodingFailure)
    /\ gens' = Remove(gens, i)
    /\ UNCHANGED <<page, url, template, logoUrl, logoFile, localLogoDataUri,
                   html, copyStatus, reads, writes, timers, clipboard, shown, replaced>>

\* await fetchLogoDataUri(logoUrl) rejects: the inner catch alerts and goes on
FetchRejected(i) ==
    /\ i \in 1..Len(gens)
    /\ gens[i].pc = "fetch"
    /\ Continuation("fetchRejected", RemoteLogoFetchFailure)
    /\ gens' = [gens EXCEPT ![i] = AfterFetch(gens[i], "reject")]
    /\ UNCHANGED <<page, url, template, logoUrl, logoFile, localLogoDataUri,
                   html, copyStatus, reads, writes, timers, clipboard, shown, replaced>>

\* Variant of Render: buildEmailHtml reads the template selected now instead
\* of the one of the render the invocation closed over.
RenderLiveTemplate(g, year) ==
    IF page = "basic" THEN buildEmailHtmlBasic(toDataURL(g.url), year)
    ELSE buildEmailHtml(toDataURL(g.url), g.logoToUse, template, year)

\* The document an invocation renders once its QR code is encoded.
Render(g, year) ==
    IF page = "basic" THEN buildEmailHtmlBasic(toDataURL(g.url), year)
    ELSE buildEmailHtml(toDataURL(g.url), g.logoToUse, g.template, year)

\* await QRCode.toDataURL(url, ...) resolves: setHtml(...); setCopyStatus('idle')
EncodeResolved(i) ==
    /\ i \in 1..Len(gens)
    /\ gens[i].pc = "encode"
    /\ Encodable(gens[i].url)
    /\ Continuation("encodeResolved", "none")
    /\ \E year \in Years : html' = Render(gens[i], year)
    /\ copyStatus' = "idle"
    /\ shown' = gens[i]
    /\ replaced' = [html |-> html, shown |-> shown]
    /\ gens' = Remove(gens, i)
    /\ UNCHANGED <<page, url, template, logoUrl, logoFile, localLogoDataUri,
                   reads, writes, timers, clipboard>>

\* Variant of EncodeRejected: the catch block also clears the output.
EncodeRejectedClears(i) ==
    /\ i \in 1..Len(gens)
    /\ gens[i].pc = "encode"
    /\ ~Encodable(gens[i].url)
    /\ Continuation("encodeRejected", QrEncodingFailure)
    /\ html' = <<>>
    /\ copyStatus' = "idle"
    /\ gens' = Remove(gens, i)
    /\ UNCHANGED <<page, url, template, logoUrl, logoFile, localLogoDataUri,
                   reads, writes, timers, clipboard, shown, replaced>>

\* await QRCode.toDataURL(url, ...) rejects: the outer catch alerts
EncodeRejected(i) ==
    /\ i \in 1..Len(gens)
    /\ gens[i].pc = "encode"
    /\ ~Encodable(gens[i].url)
    /\ Continuation("encodeRejected", QrEncodingFailure)
    /\ gens' = Remove(gens, i)
    /\ UNCHANGED <<page, url, template, logoUrl, logoFile, localLogoDataUri,
                   html, copyStatus, reads, writes, timers, clipboard, shown, replaced>>

\* Copy button onClick (rendered only when html is non-empty):
\* navigator.clipboard.writeText(html)
handleCopy ==
    /\ html # <<>>
    /\ Len(writes) + timers < MaxCopies
    /\ UserAction("handleCopy", "none")
    /\ writes' = Append(writes, html)
    /\ UNCHANGED <<page, url, template, logoUrl, logoFile, localLogoDataUri,
                   html, copyStatus, reads, gens, timers, clipboard, shown, replaced>>

\* Variant of WriteResolved: the clipboard receives the html displayed when
\* the write resolves, not the string handed over at the click.
WriteResolvedLive(i) ==
    /\ i \in 1..Len(writes)
    /\ Continuation("writeResolved", "none")
    /\ clipboard' = html
    /\ copyStatus' = "copied"
    /\ timers' = timers + 1
    /\ writes' = Remove(writes, i)
    /\ UNCHANGED <<page, url, template, logoUrl, logoFile, localLogoDataUri,
                   html, reads, gens, shown, replaced>>

\* writeText resolves: the text is on the clipboard;
\* .then(() => { setCopyStatus('copied'); setTimeout(..., 2000) })
WriteResolved(i) ==
    /\ i \in 1..Len(writes)
    /\ Continuation("writeResolved", "none")
    /\ clipboard' = writes[i]
    /\ copyStatus' = "copied"
    /\ timers' = timers + 1
    /\ writes' = Remove(writes, i)
    /\ UNCHANGED <<page, url, template, logoUrl, logoFile, localLogoDataUri,
                   html, reads, gens, shown, replaced>>

\* writeText rejects (permission denied, document not focused): no handler
WriteRejected(i) ==
    /\ i \in 1..Len(writes)
    /\ Continuation("writeRejected", "none")
    /\ writes' = Remove(writes, i)
    /\ UNCHANGED <<page, url, template, logoUrl, logoFile, localLogoDataUri,
                   html, copyStatus, reads, gens, timers, clipboard, shown, replaced>>

\* setTimeout(() => setCopyStatus('idle'), 2000) fires
TimerFired ==
    /\ timers > 0
    /\ Continuation("timerFired", "none")
    /\ copyStatus' = "idle"
    /\ timers' = timers - 1
    /\ UNCHANGED <<page, url, template, logoUrl, logoFile, localLogoDataUri,
                   html, reads, gens, writes, clipboard, shown, replaced>>

Next ==
    \/ \E v \in Urls : SetUrl(v)
    \/ \E t \in Templates : SetTemplate(t)
    \/ \E v \in LogoUrls : LogoUrlChange(v)
    \/ \E f \in Files : handleFileChange(f)
    \/ handleFileChangeNoFile
    \/ \E i \in 1..MaxReads : ReaderLoadEnd(i)
    \/ handleGenerateEmpty
    \/ handleGenerate
    \/ \E i \in 1..MaxGens : FetchResolved(i)
    \/ \E i \in 1..MaxGens : FetchRejected(i)
    \/ \E i \in 1..MaxGens : EncodeResolved(i)
    \/ \E i \in 1..MaxGens : EncodeRejected(i)
    \/ handleCopy
    \/ \E i \in 1..MaxCopies : WriteResolved(i)
    \/ \E i \in 1..MaxCopies : WriteRejected(i)
    \/ TimerFired

Spec == Init /\ [][Next]_vars
-----------------------------------------------------------------------------
\* Steps, as the properties below recognise them.
UserStep(name) == op' = name /\ actions' = actions + 1
LoopStep(name) == op' = name /\ actions' = actions /\ vars' # vars

\* The invocation a continuation step resumed, and what it left behind.
Resumed(i) == i \in 1..Len(gens) /\ Len(gens') = Len(gens) /\
              \A j \in 1..Len(gens) : j # i => gens'[j] = gens[j]
Finished(i) == i \in 1..Len(gens) /\ gens' = Remove(gens, i)

\* An invocation of the template revision whose remote logo fetch rejected.
FetchFailed(g) ==
    /\ g.pc = "encode"
    /\ ~Truthy(g.localLogoDataUri)
    /\ g.logoUrl # ""
    /\ ~Truthy(g.customLogoDataUri)

\* C1: clicking Generate while the target URL field is empty raises the
\* missing-input prompt and changes nothing: every React state field (html,
\* copyStatus, template, the logo fields) keeps its value, and no generation
\* (logo fetch, QR encoding), file read or clipboard write is started.
C1_EmptyUrlRejected ==
    [][(UserStep("handleGenerate") /\ url = "") =>
          /\ alerted' = MissingInput
          /\ uiState' = uiState
          /\ <<gens, reads, writes, timers, clipboard>>' =
             <<gens, reads, writes, timers, clipboard>>]_vars

\* C1 witness: the prompt was just raised while an earlier output is displayed.
C1_Witness ==
    /\ op = "handleGenerate"
    /\ alerted = MissingInput
    /\ url = ""
    /\ html # <<>>

\* C2: when QR encoding fails the error alert is raised and the displayed
\* output is untouched: the failing continuation, like the attempt's earlier
\* steps (the click, the settling of its logo fetch), leaves html and
\* copyStatus as they were, and it is the only step raising that alert.
C2_EncodingFailurePreservesOutput ==
    [][/\ LoopStep("encodeRejected") =>
            /\ alerted' = QrEncodingFailure
            /\ html' = html
            /\ copyStatus' = copyStatus
            /\ \E i \in 1..Len(gens) : Finished(i) /\ ~Encodable(gens[i].url)
       /\ (UserStep("handleGenerate") \/ LoopStep("fetchResolved")
             \/ LoopStep("fetchRejected")) =>
            /\ html' = html
            /\ copyStatus' = copyStatus
       /\ alerted' = QrEncodingFailure => LoopStep("encodeRejected")]_vars

\* C2 witness: an encoding failure with an earlier output displayed and the
\* copy indicator still showing 'copied'.
C2_Witness ==
    /\ op = "encodeRejected"
    /\ alerted = QrEncodingFailure
    /\ html # <<>>
    /\ copyStatus = "copied"

\* C3: the logo sources are mutually exclusive in every reachable state: the
\* stored local logo data and the remote logo URL are never both non-empty.
C3_LogoSourcesExclusive ==
    ~(Truthy(localLogoDataUri) /\ logoUrl # "")

\* C4: a rejected remote logo fetch is not fatal: the step raises the
\* warning, keeps the invocation (now awaiting QR encoding) and the displayed
\* output; when such an invocation's encoding resolves, the document it
\* displays has the built-in default logo for the Document template and no
\* logo block otherwise; and the generation-failed path is taken only by
\* invocations whose URL cannot be encoded.
C4_FetchFailureNotFatal ==
    [][/\ LoopStep("fetchRejected") =>
            /\ alerted' = RemoteLogoFetchFailure
            /\ html' = html
            /\ \E i \in 1..Len(gens) :
                  /\ Resumed(i)
                  /\ gens[i].pc = "fetch"
                  /\ FetchFailed(gens'[i])
                  /\ gens'[i].url = gens[i].url
       /\ (LoopStep("encodeResolved") /\ page = "template" /\ FetchFailed(shown')) =>
            /\ Encodable(shown'.url)
            /\ QrOf(html') = toDataURL(shown'.url)
            /\ LogoBlockOf(html') =
                  IF shown'.template = "Document" THEN defaultLogoDataUri ELSE ""
       /\ LoopStep("encodeRejected") =>
            \E i \in 1..Len(gens) : Finished(i) /\ ~Encodable(gens[i].url)]_vars

\* C4 witness: a document without logo block is displayed by an invocation
\* whose logo fetch rejected.
C4_Witness ==
    /\ op = "encodeResolved"
    /\ FetchFailed(shown)
    /\ shown.template # "Document"
    /\ LogoBlockOf(html) = ""

\* C5: a generation triggered while the user's most recent logo action is
\* the selection of a local file (logoFile is set) displays that file's image
\* as the logo, with no remote fetch and no default logo.
C5_LocalImageUsedDirectly ==
    (op = "encodeResolved" /\ page = "template" /\ shown.logoFile # Null) =>
        LogoBlockOf(html) = FileImage(shown.logoFile)

\* C6: at most one generation attempt is in progress in every reachable state.
C6_NoConcurrentGenerations ==
    Len(gens) <= 1

\* The displayed output replaced one generated by the template revision for
\* the same target URL and the same logo inputs, under another template kind.
Regenerated ==
    /\ op = "encodeResolved"
    /\ page = "template"
    /\ replaced.html # <<>>
    /\ shown.url = replaced.shown.url
    /\ shown.localLogoDataUri = replaced.shown.localLogoDataUri
    /\ shown.logoUrl = replaced.shown.logoUrl
    /\ shown.template # replaced.shown.template

\* C7 as stated: re-generating with the same URL and logo inputs under another
\* template kind leaves the QR image and the logo block identical.
C7_OnlyHeaderAndCtaChange ==
    Regenerated =>
        /\ QrOf(html) = QrOf(replaced.html)
        /\ LogoBlockOf(html) = LogoBlockOf(replaced.html)

\* C7 amended: re-generating with the same URL and logo inputs under another
\* template kind leaves the QR image identical; the logo block is identical
\* when both generations resolved the same custom logo; when neither resolved
\* a custom logo the block is the built-in default logo under Document and
\* absent under the other four kinds.
C7_QrSameLogoDefaultOnlyForDocument ==
    Regenerated =>
        /\ QrOf(html) = QrOf(replaced.html)
        /\ QrOf(html) = toDataURL(shown.url)
        /\ (Truthy(shown.customLogoDataUri)
              /\ shown.customLogoDataUri = replaced.shown.customLogoDataUri) =>
                /\ LogoBlockOf(html) = LogoBlockOf(replaced.html)
                /\ LogoBlockOf(html) = shown.customLogoDataUri
        /\ (~Truthy(shown.customLogoDataUri)
              /\ ~Truthy(replaced.shown.customLogoDataUri)) =>
                /\ LogoBlockOf(html) =
                      IF shown.template = "Document" THEN defaultLogoDataUri ELSE ""
                /\ LogoBlockOf(replaced.html) =
                      IF replaced.shown.template = "Document"
                      THEN defaultLogoDataUri ELSE ""

\* C7 witness: the same URL was re-generated without a custom logo, first
\* under Document and then under Invoice, and the logo block is gone while
\* the QR image stayed.
C7_Witness ==
    /\ Regenerated
    /\ replaced.shown.template = "Document"
    /\ shown.template = "Invoice"
    /\ ~Truthy(shown.customLogoDataUri)
    /\ LogoBlockOf(replaced.html) = defaultLogoDataUri
    /\ LogoBlockOf(html) = ""
    /\ QrOf(html) = QrOf(replaced.html)
    /\ HeaderOf(html) # HeaderOf(replaced.html)

\* C8: a copy click hands the displayed html, unchanged, to the clipboard
\* write; when a write resolves the clipboard holds exactly the string its
\* click handed over; no step of the copy action changes html.
C8_CopyPutsRenderedHtmlOnClipboard ==
    [][/\ UserStep("handleCopy") =>
            /\ html # <<>>
            /\ writes' = Append(writes, html)
            /\ html' = html
       /\ LoopStep("writeResolved") =>
            /\ \E i \in 1..Len(writes) :
                  /\ writes' = Remove(writes, i)
                  /\ clipboard' = writes[i]
            /\ html' = html
       /\ (LoopStep("writeRejected") \/ LoopStep("timerFired")) =>
            /\ html' = html
            /\ clipboard' = clipboard]_vars

\* C8 witness: a write resolved after the display moved on: the clipboard
\* holds the document of the click, not the one displayed now.
C8_Witness ==
    /\ op = "writeResolved"
    /\ clipboard # <<>>
    /\ clipboard # html

\* The document an invocation must display, from what it captured at the click.
CapturedDoc(g, year) ==
    IF page = "basic"
    THEN buildEmailHtmlBasic(toDataURL(g.url), year)
    ELSE buildEmailHtml(toDataURL(g.url),
                        LogoToUse(g.customLogoDataUri, g.template),
                        g.template, year)

\* C9: an invocation captures url, template, localLogoDataUri and logoUrl at
\* the click; no later step changes what a pending invocation captured; its
\* custom logo is resolved from the captured logo fields; and the document it
\* displays is built from the captured values, whatever the fields hold now.
C9_RequestFixedAtTrigger ==
    [][/\ (UserStep("handleGenerate") /\ url # "") =>
            /\ Len(gens') = Len(gens) + 1
            /\ SubSeq(gens', 1, Len(gens)) = gens
            /\ LET g == gens'[Len(gens')]
               IN  <<g.url, g.template, g.localLogoDataUri, g.logoUrl>> =
                   <<url, template, localLogoDataUri, logoUrl>>
       /\ (LoopStep("fetchResolved") \/ LoopStep("fetchRejected")) =>
            \E i \in 1..Len(gens) :
               /\ Resumed(i)
               /\ <<gens'[i].url, gens'[i].template,
                    gens'[i].localLogoDataUri, gens'[i].logoUrl>> =
                  <<gens[i].url, gens[i].template,
                    gens[i].localLogoDataUri, gens[i].logoUrl>>
       /\ LoopStep("encodeResolved") =>
            \E i \in 1..Len(gens) :
               /\ Finished(i)
               /\ \E year \in Years : html' = CapturedDoc(gens[i], year)
               /\ Truthy(gens[i].localLogoDataUri) =>
                     gens[i].customLogoDataUri = gens[i].localLogoDataUri
               /\ (~Truthy(gens[i].localLogoDataUri) /\ gens[i].logoUrl = "") =>
                     gens[i].customLogoDataUri = Null
               /\ (~Truthy(gens[i].localLogoDataUri) /\ gens[i].logoUrl # ""
                     /\ page = "template") =>
                     gens[i].customLogoDataUri \in
                        {fetchLogoDataUri(gens[i].logoUrl, o) : o \in FetchOutcomes}
       /\ ~(UserStep("handleGenerate") \/ LoopStep("fetchResolved")
              \/ LoopStep("fetchRejected") \/ LoopStep("encodeResolved")
              \/ LoopStep("encodeRejected")) => gens' = gens]_vars

\* C9 witness: the displayed document was built from a URL, a template and a
\* logo URL that were all edited while the generation was in flight.
C9_Witness ==
    /\ op = "encodeResolved"
    /\ page = "template"
    /\ shown.url # url
    /\ shown.template # template
    /\ shown.logoUrl # logoUrl
    /\ \E year \in Years : html = CapturedDoc(shown, year)

\* C10: whenever the copy indicator shows 'copied', the clipboard content is
\* the displayed html.
C10_CopiedMeansClipboardIsHtml ==
    copyStatus = "copied" => clipboard = html
====
